---- MODULE Spec2Model ----
(***************************************************************************)
(* Verification model of the seawater library: the EOS-80 routines of      *)
(* seawater/sea-tmp.py and the derived quantities of                       *)
(* seawater/extras/sw_extras.py.                                           *)
(*                                                                         *)
(* Reading of the source.  The bodies of sea-tmp.py keep the upper-case    *)
(* names of the MATLAB routines they were translated from (S, T, P, PR,    *)
(* PTMP, LF) while the signatures are lower-case (s, t, p, pr, pt, lf).    *)
(* The model reads each upper-case name of a body as the parameter or      *)
(* local of the same routine that it stands for.                           *)
(*                                                                         *)
(* Numbers.  The library computes in IEEE binary64.  The model computes    *)
(* in decimal floating point with eight significant digits, rounding to    *)
(* nearest (ties to even): a number is <<m, e>>, standing for m * 10^e,    *)
(* with m = 0 or 10^7 <= |m| < 10^8.  Every operation rounds its result,   *)
(* so rounding, cancellation and non-finite results exist in the model as  *)
(* they do in the program.                                                 *)
(*                                                                         *)
(* Evaluation.  Python evaluates an argument once, before the call, and a  *)
(* local once, at its assignment.  The({e : x \in {v}}) does the same: it  *)
(* evaluates v, binds the value to x and is the value of e.                *)
(***************************************************************************)
EXTENDS Integers, Sequences, FiniteSets, TLC

\* arg: the caller's arguments; op: the routine last called ("none" before
\* the first call); ret: what it returned.
VARIABLES arg, op, ret

vars == <<arg, op, ret>>

(***************************************************************************)
(* Call by value                                                           *)
(***************************************************************************)
The(set) == CHOOSE r \in set : TRUE

(***************************************************************************)
(* Floating-point arithmetic                                               *)
(***************************************************************************)
Pow10Tab == <<1, 10, 100, 1000, 10000, 100000, 1000000, 10000000,
              100000000, 1000000000>>
Pow10(n) == Pow10Tab[n + 1]

NaN == <<0, 999>>
Inf == <<1, 999>>
NegInf == <<-1, 999>>
Zero == <<0, 0>>

IsNaN(a) == a = NaN
IsInf(a) == a[2] = 999 /\ a[1] # 0
IsFinite(a) == a[2] # 999

IAbs(i) == IF i < 0 THEN -i ELSE i
ISign(i) == IF i < 0 THEN -1 ELSE IF i > 0 THEN 1 ELSE 0

\* The number of decimal digits of a, 0 < a < 2^31.
NDigits(a) ==
    IF a < 100000
    THEN (IF a < 100 THEN (IF a < 10 THEN 1 ELSE 2)
          ELSE IF a < 1000 THEN 3 ELSE IF a < 10000 THEN 4 ELSE 5)
    ELSE (IF a < 10000000 THEN (IF a < 1000000 THEN 6 ELSE 7)
          ELSE IF a < 100000000 THEN 8 ELSE IF a < 1000000000 THEN 9 ELSE 10)

\* q, whose discarded part compares to a half as cmp does (-1, 0, 1), rounded
\* to nearest, ties to even.
Round(q, cmp) == IF cmp > 0 \/ (cmp = 0 /\ q % 2 = 1) THEN q + 1 ELSE q

\* sg * q * 10^e for a rounded mantissa q of eight digits, or 10^8.
Pack(sg, q, e) ==
    IF q = 100000000 THEN <<sg * 10000000, e + 1>> ELSE <<sg * q, e>>

\* m * 10^e rounded to eight significant digits; beyond the exponent range
\* it is an infinity or zero.
Norm(mm, ee) == The({
    IF m = 0 THEN Zero
    ELSE IF d <= 8
    THEN (IF e + d > 208 THEN <<ISign(m), 999>>
          ELSE IF e + d < -192 THEN Zero
          ELSE <<m * Pow10(8 - d), e + d - 8>>)
    ELSE The({Pack(ISign(m), Round(IAbs(m) \div p, ISign((IAbs(m) % p) * 2 - p)),
                   e + d - 8)
              : p \in {Pow10(d - 8)}})
    : m \in {mm}, e \in {ee}, d \in {NDigits(IAbs(mm))}})

\* The decimal literal m * 10^e of the source, and the integer i.
Lit(m, e) == Norm(m, e)
Num(i) == Norm(i, 0)

FNeg(aa) == The({IF IsNaN(a) THEN NaN ELSE <<-a[1], a[2]>> : a \in {aa}})
FAbs(aa) == The({IF IsNaN(a) THEN NaN ELSE <<IAbs(a[1]), a[2]>> : a \in {aa}})
\* numpy.sign
FSign(aa) == The({IF IsNaN(a) THEN NaN ELSE Num(ISign(a[1])) : a \in {aa}})

\* hi + lo for finite non-zero operands with hi[2] >= lo[2].  One guard
\* digit: lo is shifted right by the difference of the exponents.
AddOrdered(hi, lo) ==
    IF hi[2] - lo[2] > 9 THEN hi
    ELSE Norm(hi[1] * 10
              + ISign(lo[1]) * ((IAbs(lo[1]) * 10) \div Pow10(hi[2] - lo[2])),
              hi[2] - 1)

FAdd(aa, bb) == The({
    IF IsNaN(a) \/ IsNaN(b) THEN NaN
    ELSE IF a[2] = 999 THEN (IF b[2] = 999 /\ a # b THEN NaN ELSE a)
    ELSE IF b[2] = 999 THEN b
    ELSE IF a[1] = 0 THEN b
    ELSE IF b[1] = 0 THEN a
    ELSE IF a[2] >= b[2] THEN AddOrdered(a, b) ELSE AddOrdered(b, a)
    : a \in {aa}, b \in {bb}})

FSub(a, b) == FAdd(a, FNeg(b))

\* x * y = H * 10^8 + L for two eight-digit mantissas, by four-digit limbs;
\* the result is sg * x * y * 10^e rounded.
MulLimbs(sg, x1, x0, y1, y0, e) == The({
    The({
        IF H >= 10000000
        THEN Pack(sg, Round(H, ISign(L - 50000000)), e + 8)
        ELSE Pack(sg, Round(H * 10 + (L \div 10000000),
                            ISign((L % 10000000) - 5000000)), e + 7)
        : H \in {x1 * y1 + (mid \div 10000) + (low \div 100000000)},
          L \in {low % 100000000}})
    : mid \in {x1 * y0 + x0 * y1},
      low \in {((x1 * y0 + x0 * y1) % 10000) * 10000 + x0 * y0}})

FMul(aa, bb) == The({
    IF IsNaN(a) \/ IsNaN(b) THEN NaN
    ELSE IF a[2] = 999 \/ b[2] = 999
         THEN (IF a[1] = 0 \/ b[1] = 0 THEN NaN
               ELSE <<ISign(a[1]) * ISign(b[1]), 999>>)
    ELSE IF a[1] = 0 \/ b[1] = 0 THEN Zero
    ELSE The({
           IF r[2] > 200 THEN <<r[1] \div 10000000, 999>>
           ELSE IF r[2] < -200 THEN Zero ELSE r
           : r \in {MulLimbs(ISign(a[1]) * ISign(b[1]),
                             IAbs(a[1]) \div 10000, IAbs(a[1]) % 10000,
                             IAbs(b[1]) \div 10000, IAbs(b[1]) % 10000,
                             a[2] + b[2])}})
    : a \in {aa}, b \in {bb}})

\* Long division of the mantissas: <<quotient of n digits, remainder>>.
RECURSIVE LongDiv(_, _, _, _)
LongDiv(rr, yy, qq, nn) == The({
    IF n = 0 THEN <<q, r>>
    ELSE LongDiv((r % y) * 10, y, q * 10 + (r \div y), n - 1)
    : r \in {rr}, y \in {yy}, q \in {qq}, n \in {nn}})

\* sg * x / y * 10^e for mantissas x, y: nine significant quotient digits,
\* the last one made sticky by the remainder.
DivMant(sg, x, y, e) == The({
    Norm(sg * (IF qr[1] % 10 = 5 /\ qr[2] # 0 THEN qr[1] + 1 ELSE qr[1]),
         IF x < y THEN e - 9 ELSE e - 8)
    : qr \in {LongDiv(IF x < y THEN x * 10 ELSE x, y, 0, 9)}})

\* numpy division: x/0 is inf (nan for 0/0), never an exception.
FDiv(aa, bb) == The({
    IF IsNaN(a) \/ IsNaN(b) THEN NaN
    ELSE IF a[2] = 999
         THEN (IF b[2] = 999 THEN NaN
               ELSE <<a[1] * (IF b[1] < 0 THEN -1 ELSE 1), 999>>)
    ELSE IF b[2] = 999 THEN Zero
    ELSE IF b[1] = 0
         THEN (IF a[1] = 0 THEN NaN ELSE <<ISign(a[1]), 999>>)
    ELSE IF a[1] = 0 THEN Zero
    ELSE DivMant(ISign(a[1]) * ISign(b[1]), IAbs(a[1]), IAbs(b[1]),
                 a[2] - b[2])
    : a \in {aa}, b \in {bb}})

FLt(aa, bb) == The({
    /\ ~IsNaN(a) /\ ~IsNaN(b)
    /\ a # b
    /\ IF a[2] = 999 THEN a = NegInf
       ELSE IF b[2] = 999 THEN b = Inf
       ELSE IF ISign(a[1]) # ISign(b[1]) THEN ISign(a[1]) < ISign(b[1])
       ELSE IF a[1] = 0 THEN FALSE
       ELSE IF a[1] > 0
            THEN a[2] < b[2] \/ (a[2] = b[2] /\ a[1] < b[1])
            ELSE a[2] > b[2] \/ (a[2] = b[2] /\ a[1] < b[1])
    : a \in {aa}, b \in {bb}})

FLe(aa, bb) == The({~IsNaN(a) /\ ~IsNaN(b) /\ (a = b \/ FLt(a, b))
                    : a \in {aa}, b \in {bb}})
FGt(a, b) == FLt(b, a)
FGe(a, b) == FLe(b, a)

RECURSIVE ISqrtIn(_, _, _)
ISqrtIn(xx, ll, hh) == The({
    IF hi - lo <= 1 THEN lo
    ELSE IF mid * mid <= x THEN ISqrtIn(x, mid, hi) ELSE ISqrtIn(x, lo, mid)
    : x \in {xx}, lo \in {ll}, hi \in {hh}, mid \in {(ll + hh) \div 2}})

\* Largest r with r * r <= x, for 0 <= x < 10^9.
ISqrt(x) == ISqrtIn(x, 0, 31623)

RECURSIVE Newton(_, _, _)
Newton(aa, xx, nn) == The({
    IF n = 0 THEN x
    ELSE Newton(a, FAdd(x, FMul(Lit(5, -1), FSub(FDiv(a, x), x))), n - 1)
    : a \in {aa}, x \in {xx}, n \in {nn}})

\* Square root (x ** 0.5, numpy.sqrt): nan for a negative operand.
FSqrt(aa) == The({
    IF IsNaN(a) THEN NaN
    ELSE IF a[1] < 0 THEN NaN
    ELSE IF a = Inf THEN Inf
    ELSE IF a[1] = 0 THEN Zero
    ELSE IF a[2] % 2 # 0
         THEN Newton(a, Norm(ISqrt(a[1] * 10), (a[2] - 1) \div 2), 4)
         ELSE Newton(a, Norm(ISqrt(a[1]), a[2] \div 2), 4)
    : a \in {aa}})

\* A coefficient of the source is written <<m, e>> for the literal m * 10^e.
\* Poly(<<c0, c1, ..., cn>>, x) is c0 + (c1 + ( ... + cn * x ... ) * x) * x,
\* evaluated in that order.
RECURSIVE Poly(_, _)
Poly(cc, xx) == The({
    IF Len(c) = 1 THEN Lit(c[1][1], c[1][2])
    ELSE FAdd(Lit(c[1][1], c[1][2]), FMul(Poly(Tail(c), x), x))
    : c \in {cc}, x \in {xx}})

Pi == Lit(31415927, -7)
HalfPi == Lit(15707963, -7)

\* numpy.cos for 0 <= x <= pi/2 (the library takes it of |latitude| in
\* radians): the Taylor polynomial in x * x, to the term x^14 / 14!.
FCos(xx) == The({
    Poly(<<<<1, 0>>, <<-5, -1>>, <<41666667, -9>>, <<-13888889, -10>>,
           <<24801587, -12>>, <<-27557319, -14>>, <<20876757, -16>>,
           <<-11470746, -18>>>>, x2)
    : x2 \in {FMul(xx, xx)}})

\* numpy.sin for -pi/2 <= x <= pi/2: x times the Taylor polynomial in
\* x * x, to the term x^15 / 15!.
FSin(xx) == The({
    FMul(xx, Poly(<<<<1, 0>>, <<-16666667, -8>>, <<83333333, -10>>,
                    <<-19841270, -11>>, <<27557319, -13>>, <<-25052108, -15>>,
                    <<16059044, -17>>, <<-76471637, -20>>>>, x2))
    : x2 \in {FMul(xx, xx)}})

\* r / (1 + sqrt(1 + r * r)) = tan(arctan(r) / 2)
HalfTan(rr) == The({
    FDiv(r, FAdd(Num(1), FSqrt(FAdd(Num(1), FMul(r, r)))))
    : r \in {rr}})

\* arctan(r) for 0 <= r <= 1: four times the arctangent series at the
\* twice-halved tangent (below 0.2), to the term u^13 / 13.
Atan01(rr) == The({
    The({
      FMul(Num(4),
           FMul(u, Poly(<<<<1, 0>>, <<-33333333, -8>>, <<2, -1>>,
                          <<-14285714, -8>>, <<11111111, -8>>,
                          <<-90909091, -9>>, <<76923077, -9>>>>, u2)))
      : u2 \in {FMul(u, u)}})
    : u \in {HalfTan(HalfTan(rr))}})

\* numpy.arctan2(y, x), for finite operands.
FAtan2(yy, xx) == The({
    IF ~IsFinite(y) \/ ~IsFinite(x) THEN NaN
    ELSE IF y[1] = 0 THEN (IF x[1] < 0 THEN Pi ELSE Zero)
    ELSE The({
           The({IF y[1] < 0 THEN FNeg(t) ELSE t
                : t \in {IF x[1] < 0 THEN FSub(Pi, a) ELSE a}})
           : a \in {IF FGe(FAbs(x), FAbs(y))
                    THEN Atan01(FDiv(FAbs(y), FAbs(x)))
                    ELSE FSub(HalfPi, Atan01(FDiv(FAbs(x), FAbs(y))))}})
    : y \in {yy}, x \in {xx}})

(***************************************************************************)
(* Equation of state: seawater/sea-tmp.py                                  *)
(***************************************************************************)
\* A keyword argument that the caller did not supply.
Absent == <<>>
Default(x, d) == IF x = Absent THEN d ELSE x

\* ITS-90 to ITS-68: the library's fixed multiplicative constant.
T68conv == Lit(100024, -5)

smow(t) == The({
    LET a0 == <<999842594, -6>>
        a1 == <<6793952, -8>>
        a2 == <<-9095290, -9>>
        a3 == <<1001685, -10>>
        a4 == <<-1120083, -12>>
        a5 == <<6536332, -15>>
        T68 == FMul(T, T68conv)
    IN Poly(<<a0, a1, a2, a3, a4, a5>>, T68)
    : T \in {t}})

\* A plausible slip: b0 left outside the product with S.
dens0_b0_apart(s, t) == The({
    LET b0 == <<824493, -6>>
        b1 == <<-40899, -7>>
        b2 == <<76438, -9>>
        b3 == <<-82467, -11>>
        b4 == <<53875, -13>>
        c0 == <<-572466, -8>>
        c1 == <<10227, -8>>
        c2 == <<-16546, -10>>
        d0 == Lit(48314, -8)
    IN The({
         FAdd(FAdd(FAdd(smow(T),
                        FAdd(Lit(824493, -6),
                             FMul(FMul(Poly(<<b1, b2, b3, b4>>, T68), T68),
                                  S))),
                   FMul(FMul(Poly(<<c0, c1, c2>>, T68), S), FSqrt(S))),
              FMul(d0, FMul(S, S)))
         : T68 \in {FMul(T, T68conv)}})
    : S \in {s}, T \in {t}})

dens0(s, t) == The({
    LET b0 == <<824493, -6>>
        b1 == <<-40899, -7>>
        b2 == <<76438, -9>>
        b3 == <<-82467, -11>>
        b4 == <<53875, -13>>
        c0 == <<-572466, -8>>
        c1 == <<10227, -8>>
        c2 == <<-16546, -10>>
        d0 == Lit(48314, -8)
    IN The({
         FAdd(FAdd(FAdd(smow(T),
                        FMul(Poly(<<b0, b1, b2, b3, b4>>, T68), S)),
                   FMul(FMul(Poly(<<c0, c1, c2>>, T68), S), FSqrt(S))),
              FMul(d0, FMul(S, S)))
         : T68 \in {FMul(T, T68conv)}})
    : S \in {s}, T \in {t}})

seck(s, t, p) == The({
    LET h3 == <<-577905, -12>>
        h2 == <<116092, -9>>
        h1 == <<143713, -8>>
        h0 == <<3239908, -6>>
        AW == Poly(<<h0, h1, h2, h3>>, T68)
        k2 == <<52787, -12>>
        k1 == <<-612293, -11>>
        k0 == <<850935, -10>>
        BW == Poly(<<k0, k1, k2>>, T68)
        e4 == <<-5155288, -11>>
        e3 == <<1360477, -8>>
        e2 == <<-2327105, -6>>
        e1 == <<1484206, -4>>
        e0 == <<1965221, -2>>
        KW == Poly(<<e0, e1, e2, e3, e4>>, T68)
        j0 == Lit(191075, -9)
        i2 == <<-16078, -10>>
        i1 == <<-10981, -9>>
        i0 == <<22838, -7>>
        A == FAdd(AW, FMul(FAdd(Poly(<<i0, i1, i2>>, T68), FMul(j0, SR)), S))
        m2 == <<91697, -14>>
        m1 == <<20816, -12>>
        m0 == <<-99348, -11>>
        B == FAdd(BW, FMul(Poly(<<m0, m1, m2>>, T68), S))
        f3 == <<-61670, -9>>
        f2 == <<109987, -7>>
        f1 == <<-603459, -6>>
        f0 == <<546746, -4>>
        g2 == <<-53009, -8>>
        g1 == <<16483, -6>>
        g0 == <<7944, -5>>
        K0 == FAdd(KW, FMul(FAdd(Poly(<<f0, f1, f2, f3>>, T68),
                                 FMul(Poly(<<g0, g1, g2>>, T68), SR)), S))
    IN FAdd(K0, FMul(FAdd(A, FMul(B, P)), P))
    \* P = P/10.0: the pressure in bars
    : S \in {s}, T68 \in {FMul(t, T68conv)}, SR \in {FSqrt(s)},
      P \in {FDiv(Default(p, Num(0)), Lit(100, -1))}})

\* A plausible slip: the pressure converted before seck is called.
dens_bars(s, t, p) == The({
    LET densP0 == dens0(S, T)
        P == FDiv(Pdb, Lit(100, -1))
        K == seck(S, T, P)
    IN FDiv(densP0, FSub(Num(1), FDiv(P, K)))
    : S \in {s}, T \in {t}, Pdb \in {p}})

dens(s, t, p) == The({
    LET densP0 == dens0(S, T)
        K == seck(S, T, Pdb)
        P == FDiv(Pdb, Lit(100, -1))
    IN FDiv(densP0, FSub(Num(1), FDiv(P, K)))
    : S \in {s}, T \in {t}, Pdb \in {p}})

\* Adiabatic temperature gradient.  ptmp calls it; its polynomial is not part
\* of sea-tmp.py.  It is a pure function of (S, T, P): the model takes it
\* from a small family (a constant gradient, and a gradient affine in T68,
\* S - 35 and P), chosen once by arg.adtg.
adtg(s, t, p) == The({
    IF arg.adtg = "const" THEN Lit(1, -4)
    ELSE FAdd(FAdd(FAdd(Lit(35803, -9),
                        FMul(Lit(85258, -10), FMul(T, T68conv))),
                   FMul(Lit(18932, -10), FSub(S, Num(35)))),
              FMul(Lit(18741, -12), P))
    : S \in {s}, T \in {t}, P \in {p}})

\* A plausible slip: the first increment not multiplied by the pressure step.
theta1_unscaled(S, T, P, del_P) ==
    The({
      <<FAdd(FMul(T, T68conv), FMul(Lit(5, -1), del_th)), del_th>>
    : del_th \in {adtg(S, T, P)}})

\* The four stages of ptmp.  A stage is <<th, q>>, the values of the locals
\* th and q when the stage ends.
theta1(S, T, P, del_P) ==
    The({
      <<FAdd(FMul(T, T68conv), FMul(Lit(5, -1), del_th)), del_th>>
    : del_th \in {FMul(del_P, adtg(S, T, P))}})

theta2(S, P, del_P, st) ==
    The({
      <<FAdd(st[1], FMul(FSub(Num(1), FDiv(Num(1), sqrt2)),
                         FSub(del_th, st[2]))),
        FAdd(FMul(FSub(Num(2), sqrt2), del_th),
             FMul(FAdd(Num(-2), FDiv(Num(3), sqrt2)), st[2]))>>
    : del_th \in {FMul(del_P, adtg(S, FDiv(st[1], T68conv),
                          FAdd(P, FMul(Lit(5, -1), del_P))))}, sqrt2 \in {FSqrt(Num(2))}})

\* A plausible slip: the third stage with the weight of the second.
theta3_weight2(S, P, del_P, st) ==
    The({
      <<FAdd(st[1], FMul(FSub(Num(1), FDiv(Num(1), sqrt2)),
                         FSub(del_th, st[2]))),
        FAdd(FMul(FAdd(Num(2), sqrt2), del_th),
             FMul(FSub(Num(-2), FDiv(Num(3), sqrt2)), st[2]))>>
    : del_th \in {FMul(del_P, adtg(S, FDiv(st[1], T68conv),
                          FAdd(P, FMul(Lit(5, -1), del_P))))}, sqrt2 \in {FSqrt(Num(2))}})

theta3(S, P, del_P, st) ==
    The({
      <<FAdd(st[1], FMul(FAdd(Num(1), FDiv(Num(1), sqrt2)),
                         FSub(del_th, st[2]))),
        FAdd(FMul(FAdd(Num(2), sqrt2), del_th),
             FMul(FSub(Num(-2), FDiv(Num(3), sqrt2)), st[2]))>>
    : del_th \in {FMul(del_P, adtg(S, FDiv(st[1], T68conv),
                          FAdd(P, FMul(Lit(5, -1), del_P))))}, sqrt2 \in {FSqrt(Num(2))}})

theta4(S, P, del_P, st) ==
    The({
      FDiv(FAdd(st[1], FDiv(FSub(del_th, FMul(Num(2), st[2])), Num(6))),
           T68conv)
    : del_th \in {FMul(del_P, adtg(S, FDiv(st[1], T68conv), FAdd(P, del_P)))}})

ptmp(s, t, p, pr) == The({
    The({
      The({
        The({
          The({theta4(S, P, del_P, st3)
               : st3 \in {theta3(S, P, del_P, st2)}})
          : st2 \in {theta2(S, P, del_P, st1)}})
        : st1 \in {theta1(S, T, P, del_P)}})
      : del_P \in {FSub(PR, P)}})
    : S \in {s}, T \in {t}, P \in {p}, PR \in {Default(pr, Num(0))}})

\* A plausible slip: the ITS-68 value th handed to adtg as it is.
adtg_call_its68(k, S, T, P, del_P, th) ==
    <<S,
      IF k = 1 THEN T ELSE th,
      IF k = 1 THEN P
      ELSE IF k = 4 THEN FAdd(P, del_P)
           ELSE FAdd(P, FMul(Lit(5, -1), del_P))>>

\* A plausible slip: the third gradient taken at the end of the step.
adtg_call_endpoint(k, S, T, P, del_P, th) ==
    <<S,
      IF k = 1 THEN T ELSE FDiv(th, T68conv),
      IF k = 1 THEN P
      ELSE IF k \in {3, 4} THEN FAdd(P, del_P)
           ELSE FAdd(P, FMul(Lit(5, -1), del_P))>>

\* ptmp, the arguments of the call of adtg in stage k (theta1 .. theta4).
adtg_call(k, S, T, P, del_P, th) ==
    <<S,
      IF k = 1 THEN T ELSE FDiv(th, T68conv),
      IF k = 1 THEN P
      ELSE IF k = 4 THEN FAdd(P, del_P)
           ELSE FAdd(P, FMul(Lit(5, -1), del_P))>>

\* ptmp, the statements of stage k after del_th is computed: the new
\* <<th, q>> of stages 1 to 3, and PT of stage 4.
stage(k, T, del_th, th, q) == The({
    CASE k = 1 -> <<FAdd(FMul(T, T68conv), FMul(Lit(5, -1), del_th)), del_th>>
      [] k = 2 -> <<FAdd(th, FMul(FSub(Num(1), FDiv(Num(1), sqrt2)),
                                  FSub(del_th, q))),
                    FAdd(FMul(FSub(Num(2), sqrt2), del_th),
                         FMul(FAdd(Num(-2), FDiv(Num(3), sqrt2)), q))>>
      [] k = 3 -> <<FAdd(th, FMul(FAdd(Num(1), FDiv(Num(1), sqrt2)),
                                  FSub(del_th, q))),
                    FAdd(FMul(FAdd(Num(2), sqrt2), del_th),
                         FMul(FSub(Num(-2), FDiv(Num(3), sqrt2)), q))>>
      [] k = 4 -> FDiv(FAdd(th, FDiv(FSub(del_th, FMul(Num(2), q)), Num(6))),
                       T68conv)
    : sqrt2 \in {FSqrt(Num(2))}})

\* A plausible slip: the pressures not swapped.
temp_noswap(s, pt, p, pr) == ptmp(s, pt, p, pr)

\* PTMP in the body is the parameter pt.
temp(s, pt, p, pr) == The({
    ptmp(S, PTMP, PR, P)
    : S \in {s}, PTMP \in {pt}, P \in {p}, PR \in {pr}})

\* A plausible slip: the density taken at the in-situ pressure.
pden_atP(s, t, p, pr) == The({
    The({dens(S, PT, P) : PT \in {ptmp(S, T, P, PR)}})
    : S \in {s}, T \in {t}, P \in {p}, PR \in {Default(pr, Num(0))}})

pden(s, t, p, pr) == The({
    The({dens(S, PT, PR) : PT \in {ptmp(S, T, P, PR)}})
    : S \in {s}, T \in {t}, P \in {p}, PR \in {Default(pr, Num(0))}})

\* A plausible slip: the reference density taken at the surface.
svan_refP0(s, t, p) == The({
    FSub(FDiv(Num(1), dens(S, T, P)),
         FDiv(Num(1), dens(Num(35), Zero, Zero)))
    : S \in {s}, T \in {t}, P \in {Default(p, Num(0))}})

svan(s, t, p) == The({
    FSub(FDiv(Num(1), dens(S, T, P)),
         FDiv(Num(1), dens(Num(35), Zero, P)))
    : S \in {s}, T \in {t}, P \in {Default(p, Num(0))}})

\* numpy.diff(a, axis=0) of a one-dimensional array.
diff(a) == [i \in 1..(Len(a) - 1) |-> FSub(a[i + 1], a[i])]

\* Degrees to radians.  dist uses the name; sea-tmp.py does not define it.
DEG2RAD == Lit(17453293, -9)
DEG2NM == Num(60)
NM2KM == Lit(18520, -4)

\* A plausible slip: the longitude differences used as they are.
dist_dlon_raw(lon) == diff(lon)

\* dist, the local dlon after the correction of the jumps over 180 degrees.
\* A plausible slip: the corrected difference keeping the sign of the raw one.
dist_dlon_samesign(lon) == The({
    [i \in 1..Len(dlon) |->
        IF FGt(FAbs(dlon[i]), Num(180))
        THEN FMul(FSign(dlon[i]), FSub(Num(360), FAbs(dlon[i])))
        ELSE dlon[i]]
    : dlon \in {diff(lon)}})

dist_dlon(lon) == The({
    [i \in 1..Len(dlon) |->
        IF FGt(FAbs(dlon[i]), Num(180))
        THEN FMul(FNeg(FSign(dlon[i])), FSub(Num(360), FAbs(dlon[i])))
        ELSE dlon[i]]
    : dlon \in {diff(lon)}})

\* dist returns the pair (dist, phaseangle), here a record.
dist(lon, lat) == The({
    The({
      [dist |-> [i \in 1..Len(dlon) |->
                   FMul(FMul(DEG2NM,
                             FSqrt(FAdd(FMul(dlat[i], dlat[i]),
                                        FMul(dep[i], dep[i])))),
                        NM2KM)],
       phaseangle |-> [i \in 1..Len(dlon) |->
                   FMul(FAtan2(dlat[i], dep[i]), FDiv(Num(1), DEG2RAD))]]
      : dep \in {[i \in 1..Len(dlon) |->
                   FMul(FCos(FDiv(FAdd(latrad[i + 1], latrad[i]), Num(2))),
                        dlon[i])]}})
    : dlon \in {dist_dlon(lon)},
      latrad \in {[i \in 1..Len(lat) |-> FAbs(FMul(lat[i], DEG2RAD))]},
      dlat \in {diff(lat)}})

db2Pascal == Lit(1, 4)

\* svan(S, T, P) of two-dimensional arrays of one shape: row k is level k.
RECURSIVE svanRow(_, _, _, _)
svanRow(S, T, P, j) ==
    IF j = 0 THEN <<>>
    ELSE Append(svanRow(S, T, P, j - 1), svan(S[j], T[j], P[j]))

RECURSIVE svanArr(_, _, _, _)
svanArr(S, T, P, k) ==
    IF k = 0 THEN <<>>
    ELSE Append(svanArr(S, T, P, k - 1),
                svanRow(S[k], T[k], P[k], Len(P[k])))

\* A plausible slip: the lower value of each pair instead of the mean.
mean_svan_lower(svn) ==
    [k \in 1..(Len(svn) - 1) |-> [j \in 1..Len(svn[k]) |-> svn[k + 1][j]]]

\* gpan, the local mean_svan = 0.5 * (svn[1:m,:] + svn[0:m-1,:])
mean_svan(svn) ==
    [k \in 1..(Len(svn) - 1) |->
        [j \in 1..Len(svn[k]) |->
            FMul(Lit(5, -1), FAdd(svn[k + 1][j], svn[k][j]))]]

\* gpan, the local top: one row, for one column as for several.
top(svn, P) ==
    IF Len(P[1]) = 1
    THEN <<FMul(FMul(svn[1][1], P[1][1]), db2Pascal)>>
    ELSE [j \in 1..Len(P[1]) |-> FMul(FMul(svn[1][j], P[1][j]), db2Pascal)]

\* A plausible slip: the pressure differences taken upwards.
delta_ga_upwards(svn, P) == The({
    [k \in 1..(Len(P) - 1) |->
        [j \in 1..Len(P[k]) |->
            FMul(FMul(m[k][j], FSub(P[k][j], P[k + 1][j])), db2Pascal)]]
    : m \in {mean_svan(svn)}})

\* gpan, the local delta_ga = (mean_svan * diff(P, axis=0)) * db2Pascal
delta_ga(svn, P) == The({
    [k \in 1..(Len(P) - 1) |->
        [j \in 1..Len(P[k]) |->
            FMul(FMul(m[k][j], FSub(P[k + 1][j], P[k][j])), db2Pascal)]]
    : m \in {mean_svan(svn)}})

\* numpy.cumsum(a, axis=0) of the first k rows of a.
RECURSIVE cumsum(_, _)
cumsum(a, k) ==
    IF k = 1 THEN <<a[1]>>
    ELSE The({Append(c, [j \in 1..Len(a[k]) |-> FAdd(c[k - 1][j], a[k][j])])
              : c \in {cumsum(a, k - 1)}})

\* A numpy array: its shape and its elements, for one dimension the sequence
\* of the elements and for two the sequence of the rows.
Vector(seq) == [shape |-> <<Len(seq)>>, at |-> seq]
Matrix(rows) == [shape |-> <<Len(rows), Len(rows[1])>>, at |-> rows]
ndim(a) == Len(a.shape)

\* A call that ends by raising the exception e returns nothing.
Raised(e) == [exc |-> e]
IsRaised(r) == DOMAIN r = {"exc"}

\* gpan.  For a two-dimensional P of m levels and n columns it returns m
\* rows.  For a one-dimensional P (with S and T of one dimension) the
\* branch P.ndim == 1 sets m and leaves n unset; svn is one-dimensional and
\* svn[1:m,:] indexes it with two indices, which numpy refuses.
gpan(s, t, p) == The({
    IF ndim(P) = 1
    THEN Raised("IndexError")
    ELSE The({Matrix(cumsum(<<top(svn, P.at)>> \o delta_ga(svn, P.at),
                            P.shape[1]))
              : svn \in {svanArr(S.at, T.at, P.at, P.shape[1])}})
    : S \in {s}, T \in {t}, P \in {p}})

\* The rotation rate of the earth, radians per second.
OMEGA == Lit(7292, -8)

\* The Coriolis parameter f = 2 * OMEGA * sin(lat) of a latitude in degrees.
cor(lat) == FMul(FMul(Num(2), OMEGA), FSin(FMul(lat, DEG2RAD)))

\* gvel and gvel2, the local lf = f * distm of the first j pairs of
\* stations, f = cor((lat[0:n-1] + lat[1:n]) / 2).
RECURSIVE gvel_lf(_, _, _)
gvel_lf(lat, distm, j) ==
    IF j = 0 THEN <<>>
    ELSE Append(gvel_lf(lat, distm, j - 1),
                FMul(cor(FDiv(FAdd(lat[j], lat[j + 1]), Num(2))), distm[j]))

\* A plausible slip: the distances left in kilometres.
gvel_km(ga, lon, lat) == The({
    The({
      Matrix([k \in 1..ga.shape[1] |->
                [j \in 1..(ga.shape[2] - 1) |->
                   FDiv(FNeg(FSub(ga.at[k][j + 1], ga.at[k][j])), lf[j])]])
      : lf \in {gvel_lf(lat, dista, ga.shape[2] - 1)}})
    : dista \in {dist(lon, lat).dist}})

\* gvel; the name LF of its last line is read as the local lf.
gvel(ga, lon, lat) == The({
    The({
      Matrix([k \in 1..ga.shape[1] |->
                [j \in 1..(ga.shape[2] - 1) |->
                   FDiv(FNeg(FSub(ga.at[k][j + 1], ga.at[k][j])), lf[j])]])
      : lf \in {gvel_lf(lat, [i \in 1..Len(dista) |->
                                  FMul(Num(1000), dista[i])],
                        ga.shape[2] - 1)}})
    : dista \in {dist(lon, lat).dist}})

\* A plausible slip: f taken at the latitude of the first station of each
\* pair instead of the mean latitude.
gvel2_firstlat(ga, dista, lat) == The({
    Matrix([k \in 1..ga.shape[1] |->
              [j \in 1..(ga.shape[2] - 1) |->
                 FDiv(FNeg(FSub(ga.at[k][j + 1], ga.at[k][j])), lf[j])]])
    : lf \in {[j \in 1..(ga.shape[2] - 1) |->
                 FMul(cor(lat[j]), FMul(Num(1000), dista[j]))]}})

\* gvel2(ga, dist, lat); the name dista of its first line is read as the
\* parameter dist, and LF as the local lf.
gvel2(ga, dista, lat) == The({
    Matrix([k \in 1..ga.shape[1] |->
              [j \in 1..(ga.shape[2] - 1) |->
                 FDiv(FNeg(FSub(ga.at[k][j + 1], ga.at[k][j])), lf[j])]])
    : lf \in {gvel_lf(lat, [i \in 1..Len(dista) |->
                                FMul(Num(1000), dista[i])],
                      ga.shape[2] - 1)}})

(***************************************************************************)
(* Derived quantities: seawater/extras/sw_extras.py                        *)
(***************************************************************************)
\* A plausible slip: the density at atmospheric pressure, as the docstring
\* of sigma_t words it.
sigma_t_atP0(s, t, p) == FSub(dens(s, t, Zero), Num(1000))

sigma_t(s, t, p) == The({FSub(d, Num(1000)) : d \in {dens(s, t, p)}})

\* A plausible slip: the reference pressure not passed on.
sigmatheta_nopr(s, t, p, pr) == FSub(pden(s, t, p, Absent), Num(1000))

sigmatheta(s, t, p, pr) ==
    The({FSub(d, Num(1000)) : d \in {pden(s, t, p, Default(pr, Num(0)))}})

\* A plausible slip: the plain square root.
N_plain(bvfr2) == FSqrt(bvfr2)

N(bvfr2) == The({FMul(FSqrt(FAbs(x)), FSign(x)) : x \in {bvfr2}})

\* A plausible slip: the square without the sign of n.
richnumb_nosign(n, s) == The({
    FDiv(n2, s2)
    : n2 \in {FMul(n, n)}, s2 \in {FMul(s, s)}})

\* richnumb: n2 = n**2 * sign(n), s2 = s**2, ri = n2 / s2.
richnumb(n, s) == The({
    FDiv(n2, s2)
    : n2 \in {FMul(FMul(n, n), FSign(n))}, s2 \in {FMul(s, s)}})

\* numpy arithmetic on arrays.  Scalar(x) is the array of no dimension that
\* numpy.asarray makes of a number.
Scalar(x) == [shape |-> <<>>, at |-> x]

\* The shape two shapes broadcast to: aligned at the last dimension, a
\* missing dimension or one of length 1 stretches to the other's.
broadcast(sa, sb) == The({
    [i \in 1..r |->
        The({IF da = 1 THEN db ELSE da
             : da \in {IF i > r - Len(sa) THEN sa[i - (r - Len(sa))] ELSE 1},
               db \in {IF i > r - Len(sb) THEN sb[i - (r - Len(sb))] ELSE 1}})]
    : r \in {IF Len(sa) > Len(sb) THEN Len(sa) ELSE Len(sb)}})

\* The element of a at row k and column j of a shape that a broadcasts to.
item(a, k, j) ==
    IF Len(a.shape) = 0 THEN a.at
    ELSE IF Len(a.shape) = 1
         THEN a.at[IF a.shape[1] = 1 THEN 1 ELSE j]
         ELSE a.at[IF a.shape[1] = 1 THEN 1 ELSE k]
                  [IF a.shape[2] = 1 THEN 1 ELSE j]

\* The scalar operation behind an array operator.
apply(f, x, y) ==
    CASE f = "add" -> FAdd(x, y)
      [] f = "sub" -> FSub(x, y)
      [] f = "mul" -> FMul(x, y)

\* a + b, a - b, a * b of arrays: the operation on the elements at each
\* position of the broadcast shape.
ufunc(f, a0, b0) == The({
    The({
      [shape |-> shape,
       at |-> IF Len(shape) = 0 THEN apply(f, a.at, b.at)
              ELSE IF Len(shape) = 1
                   THEN [j \in 1..shape[1] |->
                           apply(f, item(a, 1, j), item(b, 1, j))]
                   ELSE [k \in 1..shape[1] |->
                           [j \in 1..shape[2] |->
                              apply(f, item(a, k, j), item(b, k, j))]]]
      : shape \in {broadcast(a.shape, b.shape)}})
    : a \in {a0}, b \in {b0}})

\* A plausible slip: the salinity term taken from the first element of s.
tcond_flat_s(s, t, p) ==
    ufunc("mul",
      ufunc("mul", Scalar(Lit(1365, -6)),
        ufunc("sub",
          ufunc("add",
            ufunc("sub",
              ufunc("add", Scalar(Num(1)), ufunc("mul", Scalar(Lit(3, -3)), t)),
              ufunc("mul", Scalar(Lit(1025, -8)), ufunc("mul", t, t))),
            ufunc("mul", Scalar(Lit(653, -4)),
                  ufunc("mul", Scalar(Lit(1, -4)), p))),
          ufunc("mul", Scalar(Lit(29, -5)), Scalar(item(s, 1, 1))))),
      Scalar(Lit(4184, -1)))

\* tcond, on the arrays that numpy.asarray makes of its arguments; t ** 2 is
\* the product t * t.
tcond(s, t, p) ==
    ufunc("mul",
      ufunc("mul", Scalar(Lit(1365, -6)),
        ufunc("sub",
          ufunc("add",
            ufunc("sub",
              ufunc("add", Scalar(Num(1)), ufunc("mul", Scalar(Lit(3, -3)), t)),
              ufunc("mul", Scalar(Lit(1025, -8)), ufunc("mul", t, t))),
            ufunc("mul", Scalar(Lit(653, -4)),
                  ufunc("mul", Scalar(Lit(1, -4)), p))),
          ufunc("mul", Scalar(Lit(29, -5)), s))),
      Scalar(Lit(4184, -1)))

(***************************************************************************)
(* The library in use: a caller holds arguments, calls a routine on them,  *)
(* reads what it returned and drops it before the next call.               *)
(***************************************************************************)
\* Temperatures 0, 10, ..., 10 * MaxT degC; pressures and reference
\* pressures 0, 5000, ..., 5000 * MaxP db; fresh, reference and salty water.
MaxT == 2
MaxP == 2

SVals == {Num(0), Num(35), Num(40)}
TVals == {Num(10 * i) : i \in 0..MaxT}
PVals == {Num(5000 * i) : i \in 0..MaxP}
AdtgVals == {"const", "affine"}

EosArgs == [S : SVals, T : TVals, P : PVals, PR : PVals \cup {Absent},
            adtg : AdtgVals]

InitEos == /\ arg \in EosArgs
           /\ op = "none"
           /\ ret = Zero

Return(name, value) == /\ op = "none"
                       /\ op' = name
                       /\ ret' = value
                       /\ UNCHANGED arg

Discard == /\ op # "none"
           /\ op' = "none"
           /\ ret' = Zero
           /\ UNCHANGED arg

Call_smow == Return("smow", smow(arg.T))
Call_dens0 == Return("dens0", dens0(arg.S, arg.T))
Call_seck == Return("seck", seck(arg.S, arg.T, arg.P))
Call_dens == Return("dens", dens(arg.S, arg.T, arg.P))
Call_ptmp == Return("ptmp", ptmp(arg.S, arg.T, arg.P, arg.PR))
\* temp has no default for pr.
Call_temp == /\ arg.PR # Absent
             /\ Return("temp", temp(arg.S, arg.T, arg.P, arg.PR))
Call_pden == Return("pden", pden(arg.S, arg.T, arg.P, arg.PR))
Call_svan == Return("svan", svan(arg.S, arg.T, arg.P))
Call_sigma_t == Return("sigma_t", sigma_t(arg.S, arg.T, arg.P))
Call_sigmatheta == Return("sigmatheta",
                          sigmatheta(arg.S, arg.T, arg.P, arg.PR))

NextEos == \/ Call_smow
           \/ Call_dens0
           \/ Call_seck
           \/ Call_dens
           \/ Call_ptmp
           \/ Call_temp
           \/ Call_pden
           \/ Call_svan
           \/ Call_sigma_t
           \/ Call_sigmatheta
           \/ Discard

Spec == InitEos /\ [][NextEos]_vars

\* The integers -MaxN2 .. MaxN2 as arguments of N.
MaxN2 == 60

InitN == /\ arg \in [bvfr2 : {Num(i) : i \in (-MaxN2)..MaxN2}]
         /\ op = "none"
         /\ ret = Zero

Call_N == Return("N", N(arg.bvfr2))

NextN == Call_N \/ Discard

SpecN == InitN /\ [][NextN]_vars

\* Station tracks for dist: up to MaxPositions positions; longitudes at the
\* date line (within MaxLonOff degrees of it) and at Greenwich; latitudes
\* stepping from one of the multiples of 30 degrees up to 30 * MaxLat.
MaxPositions == 3
MaxLonOff == 1
MaxLat == 1

LonVals == {Num(0)} \cup {Num(180 - i) : i \in 0..MaxLonOff}
                    \cup {Num(i - 180) : i \in 0..MaxLonOff}
LatTrack(n, l0, st) ==
    [i \in 1..n |-> Num(30 * ((l0 + (i - 1) * st) % (MaxLat + 1)))]

DistArgs ==
    UNION {[lon : [1..n -> LonVals],
            lat : {LatTrack(n, l0, st) : l0 \in 0..MaxLat, st \in 0..1}]
           : n \in 1..MaxPositions}

InitDist == /\ arg \in DistArgs
            /\ op = "none"
            /\ ret = Zero

Call_dist == Return("dist", dist(arg.lon, arg.lat))

NextDist == Call_dist \/ Discard

SpecDist == InitDist /\ [][NextDist]_vars

\* Sections for gpan: up to MaxLevels levels and MaxStations stations.  The
\* stations share a non-decreasing pressure column with values up to
\* 1000 * MaxDb decibars; each station is of one water type (S, T), and
\* the stations are in the order of the water types.
MaxLevels == 3
MaxStations == 2
MaxDb == 2

\* (S, T): the reference water, a warmer and a saltier one.
WaterVals == <<<<Num(35), Num(0)>>, <<Num(35), Num(20)>>, <<Num(40), Num(0)>>>>
Waters(n) ==
    {w \in [1..n -> 1..Len(WaterVals)] : \A j \in 1..(n - 1) : w[j] <= w[j + 1]}
PColumns(m) ==
    {c \in [1..m -> {Num(1000 * i) : i \in 0..MaxDb}] :
        \A k \in 1..(m - 1) : FLe(c[k], c[k + 1])}

Section(m, n, c, w) ==
    [S |-> Matrix([k \in 1..m |-> [j \in 1..n |-> WaterVals[w[j]][1]]]),
     T |-> Matrix([k \in 1..m |-> [j \in 1..n |-> WaterVals[w[j]][2]]]),
     P |-> Matrix([k \in 1..m |-> [j \in 1..n |-> c[k]]])]

GpanArgs ==
    UNION {{Section(m, n, c, w) : c \in PColumns(m), w \in Waters(n)}
           : m \in 1..MaxLevels, n \in 1..MaxStations}

InitGpan == /\ arg \in GpanArgs
            /\ op = "none"
            /\ ret = Zero

Call_gpan == Return("gpan", gpan(arg.S, arg.T, arg.P))

NextGpan == Call_gpan \/ Discard

SpecGpan == InitGpan /\ [][NextGpan]_vars

\* Single profiles for gpan: S, T and P one-dimensional, of up to MaxLevels
\* levels, of one water type.
Profile(m, c, w) ==
    [S |-> Vector([k \in 1..m |-> WaterVals[w][1]]),
     T |-> Vector([k \in 1..m |-> WaterVals[w][2]]),
     P |-> Vector(c)]

ProfileArgs ==
    UNION {{Profile(m, c, w) : c \in PColumns(m), w \in 1..Len(WaterVals)}
           : m \in 1..MaxLevels}

InitProfile == /\ arg \in ProfileArgs
               /\ op = "none"
               /\ ret = Zero

SpecProfile == InitProfile /\ [][NextGpan]_vars

\* Sections for gvel: a grid ga of up to MaxGaLevels levels at up to
\* MaxStations + 1 stations, the stations on either side of the date line.
MaxGaLevels == 2

GvelLons == {Num(0), Num(179), Num(-179)}
GaGrid(m, n, g) ==
    Matrix([k \in 1..m |-> [j \in 1..n |-> Num(10 * ((g * (k + 2 * j)) % 7))]])

GvelArgs ==
    UNION {[ga : {GaGrid(m, n, g) : m \in 1..MaxGaLevels, g \in {1, 3}},
            lon : [1..n -> GvelLons],
            lat : {LatTrack(n, l0, st) : l0 \in 0..MaxLat, st \in 0..1}]
           : n \in 1..(MaxStations + 1)}

InitGvel == /\ arg \in GvelArgs
            /\ op = "none"
            /\ ret = Zero

Call_gvel == Return("gvel", gvel(arg.ga, arg.lon, arg.lat))

\* gvel2 called with the distances that dist returns for the track.
Call_gvel2 ==
    Return("gvel2", gvel2(arg.ga, dist(arg.lon, arg.lat).dist, arg.lat))

NextGvel == Call_gvel \/ Call_gvel2 \/ Discard

SpecGvel == InitGvel /\ [][NextGvel]_vars

\* Arguments of tcond: each of s, t and p a number, a row of n, a grid of
\* m x n, or a grid of one row or of one column, for m up to MaxRows and n
\* up to MaxCols.
MaxRows == 3
MaxCols == 4

ShapeVals(m, n) == {<<>>, <<n>>, <<m, n>>, <<1, n>>, <<m, 1>>}

\* The array of a shape whose elements are base + step * (a residue that
\* changes with the row and the column).
ArrayOf(shape, base, step) ==
    [shape |-> shape,
     at |-> IF Len(shape) = 0 THEN Num(base)
            ELSE IF Len(shape) = 1
                 THEN [j \in 1..shape[1] |-> Num(base + step * ((3 * j) % 7))]
                 ELSE [k \in 1..shape[1] |->
                         [j \in 1..shape[2] |->
                            Num(base + step * ((2 * k + 3 * j) % 7))]]]

TcondArgs ==
    UNION {[s : {ArrayOf(sh, 30, 1) : sh \in ShapeVals(m, n)},
            t : {ArrayOf(sh, 0, 5) : sh \in ShapeVals(m, n)},
            p : {ArrayOf(sh, 0, 1000) : sh \in ShapeVals(m, n)}]
           : m \in 1..MaxRows, n \in 1..MaxCols}

InitTcond == /\ arg \in TcondArgs
             /\ op = "none"
             /\ ret = Zero

Call_tcond == Return("tcond", tcond(arg.s, arg.t, arg.p))

NextTcond == Call_tcond \/ Discard

SpecTcond == InitTcond /\ [][NextTcond]_vars

(***************************************************************************)
(* shear: the vertical shear of a velocity section                         *)
(***************************************************************************)
\* A plausible slip: the pressure vector tiled, not repeated element by
\* element.
repeat_tiled(a, repeats) ==
    [k \in 1..(Len(a) * repeats) |-> a[((k - 1) % Len(a)) + 1]]

\* np.repeat(p[np.newaxis,:], repeats, axis=1), the one row of the result:
\* every element of a in turn, repeats times.
repeat(a, repeats) ==
    [k \in 1..(Len(a) * repeats) |-> a[((k - 1) \div repeats) + 1]]

\* flat.reshape(shape): the elements in row-major order.
reshape(flat, shape) ==
    [shape |-> shape,
     at |-> [i \in 1..shape[1] |->
               [j \in 1..shape[2] |-> flat[(i - 1) * shape[2] + j]]]]

\* shear(p, u, v) returns the pair (shr, p_ave); u ** 2 is the product u * u.
shear(p0, u, v) == The({
    The({
      The({
        [shr |-> [shape |-> <<m - 1, n>>,
                  at |-> [i \in 1..(m - 1) |->
                            [j \in 1..n |->
                               FDiv(FSub(vel[i + 1][j], vel[i][j]),
                                    FSub(p.at[i + 1][j], p.at[i][j]))]]],
         p_ave |-> [shape |-> <<m - 1, n>>,
                    at |-> [i \in 1..(m - 1) |->
                              [j \in 1..n |->
                                 FDiv(FAdd(p.at[i][j], p.at[i + 1][j]),
                                      Num(2))]]]]
        : vel \in {[i \in 1..u.shape[1] |->
                      [j \in 1..u.shape[2] |->
                         FSqrt(FAdd(FMul(u.at[i][j], u.at[i][j]),
                                    FMul(item(v, i, j), item(v, i, j))))]]}})
      : m \in {p.shape[1]}, n \in {p.shape[2]}})
    : p \in {IF ndim(p0) = 1
              THEN reshape(repeat(p0.at, u.shape[2]), u.shape)
              ELSE p0}})

MaxShearLevels == 3
MaxShearCols == 2

\* The arguments of a call: a pressure vector of increasing levels, or the
\* grid with those levels down every column; a section u of a speed per level
\* growing with the column; v left out (given = 2, the default 0) or a
\* section of the shape of u.
ShearArgs ==
    UNION {[p : UNION {{Vector(lv), Matrix([i \in 1..m |-> [j \in 1..n |-> lv[i]]])}
                       : lv \in {q \in [1..m -> {Num(0), Num(250), Num(500), Num(1000)}] :
                                    \A i \in 1..(m - 1) : FLt(q[i], q[i + 1])}},
            u : {Matrix([i \in 1..m |-> [j \in 1..n |-> FMul(sp[i], Num(j))]])
                 : sp \in [1..m -> {Lit(5, -1), Lit(15, -2), Num(0)}]},
            v : {Scalar(Num(0)),
                 Matrix([i \in 1..m |-> [j \in 1..n |-> Lit(2 * (i + j), -1)]])},
            given : {2, 3}]
           : m \in 1..MaxShearLevels, n \in 1..MaxShearCols}

InitShear == /\ arg \in ShearArgs
             /\ (arg.given = 2) <=> (ndim(arg.v) = 0)
             /\ op = "none"
             /\ ret = Zero

Call_shear ==
    Return("shear", IF arg.given = 2 THEN shear(arg.p, arg.u, Scalar(Num(0)))
                    ELSE shear(arg.p, arg.u, arg.v))

NextShear == Call_shear \/ Discard

SpecShear == InitShear /\ [][NextShear]_vars

(***************************************************************************)
(* The conversion of pressure from decibars to bars                        *)
(***************************************************************************)
\* A Python number (or the element type of a numpy array) is an integer or a
\* float: [dtype |-> "int", n |-> the integer, x |-> Zero] or
\* [dtype |-> "float", n |-> 0, x |-> the float].  a / b of Python 2 in a
\* module without "from __future__ import division": the floor of the
\* quotient for two integers (b > 0 here), the float quotient otherwise.
py_div(a, b) ==
    IF a.dtype = "int" /\ b.dtype = "int"
    THEN [dtype |-> "int", n |-> a.n \div b.n, x |-> Zero]
    ELSE [dtype |-> "float", n |-> 0,
          x |-> FDiv(IF a.dtype = "int" THEN Num(a.n) ELSE a.x,
                     IF b.dtype = "int" THEN Num(b.n) ELSE b.x)]

MaxPdb == 30

\* A caller holding a pressure in decibars, an integer or a float.
InitBars ==
    /\ arg \in [P : {[dtype |-> "int", n |-> i, x |-> Zero] : i \in 0..MaxPdb}
                   \cup {[dtype |-> "float", n |-> 0, x |-> Num(i)]
                          : i \in 0..MaxPdb}]
    /\ op = "none"
    /\ ret = Zero

\* The first statement of svel, cp, seck and the conversion in dens: ret is
\* the local P, in bars, that the rest of the routine computes with.
svel_P == Return("svel", py_div(arg.P, [dtype |-> "int", n |-> 10, x |-> Zero]))

cp_P == Return("cp", py_div(arg.P, [dtype |-> "int", n |-> 10, x |-> Zero]))

seck_P ==
    Return("seck", py_div(arg.P, [dtype |-> "float", n |-> 0, x |-> Num(10)]))

dens_P ==
    Return("dens", py_div(arg.P, [dtype |-> "float", n |-> 0, x |-> Num(10)]))

NextBars == svel_P \/ cp_P \/ seck_P \/ dens_P \/ Discard

SpecBars == InitBars /\ [][NextBars]_vars

\* ptmp statement by statement.  While ptmp runs, ret holds its frame: the
\* stage to run next (pc), del_P, the calls of adtg made so far (calls), the
\* value of th after each stage (ths), q, and PT once it is assigned.
ptmp_call ==
    /\ op = "none"
    /\ op' = "ptmp"
    /\ ret' = [pc |-> 1,
               del_P |-> FSub(Default(arg.PR, Num(0)), arg.P),
               calls |-> <<>>, ths |-> <<>>, q |-> Zero, PT |-> Absent]
    /\ UNCHANGED arg

ptmp_stage ==
    /\ op = "ptmp"
    /\ ret.pc \in 1..4
    /\ \E c \in {adtg_call(ret.pc, arg.S, arg.T, arg.P, ret.del_P,
                           IF ret.pc = 1 THEN Zero ELSE ret.ths[ret.pc - 1])} :
         \E r \in {stage(ret.pc, arg.T,
                         FMul(ret.del_P, adtg(c[1], c[2], c[3])),
                         IF ret.pc = 1 THEN Zero ELSE ret.ths[ret.pc - 1],
                         ret.q)} :
           ret' = [pc |-> ret.pc + 1,
                   del_P |-> ret.del_P,
                   calls |-> Append(ret.calls, c),
                   ths |-> IF ret.pc < 4 THEN Append(ret.ths, r[1])
                           ELSE ret.ths,
                   q |-> IF ret.pc < 4 THEN r[2] ELSE ret.q,
                   PT |-> IF ret.pc = 4 THEN r ELSE Absent]
    /\ UNCHANGED <<arg, op>>

ptmp_return ==
    /\ op = "ptmp"
    /\ ret.pc = 5
    /\ op' = "none"
    /\ ret' = Zero
    /\ UNCHANGED arg

NextPtmp == ptmp_call \/ ptmp_stage \/ ptmp_return

SpecPtmp == InitEos /\ [][NextPtmp]_vars

\* Arguments of richnumb: a squared frequency x up to MaxRiX either way,
\* given as n itself or through n = N(x), and a shear s in halves up to
\* MaxRiS / 2 either way.
MaxRiX == 8
MaxRiS == 3

InitRi == /\ arg \in [x : {Num(i) : i \in (-MaxRiX)..MaxRiX},
                      s : {FDiv(Num(j), Num(2)) : j \in (-MaxRiS)..MaxRiS}]
          /\ op = "none"
          /\ ret = Zero

Call_richnumb == Return("richnumb", richnumb(arg.x, arg.s))

\* richnumb(swe.N(x), s), as in the example of its docstring.
Call_richnumb_N == Return("richnumb_N", richnumb(N(arg.x), arg.s))

NextRi == Call_richnumb \/ Call_richnumb_N \/ Discard

SpecRi == InitRi /\ [][NextRi]_vars

(***************************************************************************)
(* Arrays as objects.  A routine called with arrays works on the caller's  *)
(* objects: a frame binds each name of the routine to an object and the    *)
(* heap holds the elements of every object.  name = expression makes a new *)
(* object and binds the name to it; name[...] = expression changes the     *)
(* object the name is bound to.                                             *)
(***************************************************************************)
Frame(params) ==
    [env |-> [n \in DOMAIN params |-> <<"arg", n>>],
     heap |-> [id \in {<<"arg", n>> : n \in DOMAIN params} |-> params[id[2]]]]

Val(fr, name) == fr.heap[fr.env[name]]

Assign(fr, routine, name, v) ==
    [env |-> (name :> <<routine, name>>) @@ fr.env,
     heap |-> (<<routine, name>> :> v) @@ fr.heap]

SetItem(fr, name, v) ==
    [env |-> fr.env, heap |-> [fr.heap EXCEPT ![fr.env[name]] = v]]

\* A plausible slip: the conversion of seck written P /= 10.0, which
\* divides the elements of the caller's array.
seck_body_inplace(fr) == The({
    Assign(SetItem(fr, "P", [i \in 1..Len(P) |-> FDiv(P[i], Lit(100, -1))]),
           "seck", "K", [i \in 1..Len(P) |-> seck(S[i], T[i], P[i])])
    : S \in {Val(fr, "S")}, T \in {Val(fr, "T")}, P \in {Val(fr, "P")}})

\* seck on arrays: P = P/10.0 binds P to a new array; every other
\* statement assigns a new local, the last of them K, which is returned.
seck_body(fr) == The({
    Assign(Assign(fr, "seck", "P",
                  [i \in 1..Len(P) |-> FDiv(P[i], Lit(100, -1))]),
           "seck", "K", [i \in 1..Len(P) |-> seck(S[i], T[i], P[i])])
    : S \in {Val(fr, "S")}, T \in {Val(fr, "T")}, P \in {Val(fr, "P")}})

\* dens on arrays: densP0 = dens0(S, T) (dens0 and smow assign new locals
\* only), K = seck(S, T, P) on the same objects, P = P / 10.0 a new array,
\* dens = densP0 / (1 - P / K).
dens_body(fr) == The({
    The({
      Assign(f2, "dens", "dens",
             [i \in 1..Len(P) |->
                FDiv(dens0(Val(f2, "S")[i], Val(f2, "T")[i]),
                     FSub(Num(1), FDiv(P[i], K[i])))])
      : P \in {Val(f2, "P")}, K \in {f2.heap[<<"seck", "K">>]}})
    : f2 \in {The({
        Assign(f1, "dens", "P",
               [i \in 1..Len(Val(f1, "P")) |->
                  FDiv(Val(f1, "P")[i], Lit(100, -1))])
        : f1 \in {[env |-> fr.env, heap |-> seck_body(fr).heap]}})}})

\* dist on arrays: dlon = np.diff(lon, axis=0) is a new array, and the
\* correction dlon[flag] = ... changes that array; the arrays returned are
\* new ones.
dist_body(fr) == The({
    Assign(IF \E i \in 1..Len(dlon) : FGt(FAbs(dlon[i]), Num(180))
           THEN SetItem(f1, "dlon", dist_dlon(Val(fr, "lon")))
           ELSE f1,
           "dist", "dist", dist(Val(fr, "lon"), Val(fr, "lat")))
    : f1 \in {Assign(fr, "dist", "dlon", diff(Val(fr, "lon")))},
      dlon \in {diff(Val(fr, "lon"))}})

\* The caller's arrays after a call that leaves the heap of f.
Kept(f, a, n) ==
    IF <<"arg", n>> \in DOMAIN f.heap THEN f.heap[<<"arg", n>>] ELSE a[n]
Caller(f, a) ==
    [S |-> Kept(f, a, "S"), T |-> Kept(f, a, "T"), P |-> Kept(f, a, "P"),
     lon |-> Kept(f, a, "lon"), lat |-> Kept(f, a, "lat")]

\* Calls with arrays: up to MaxArray levels of S, T and P, and a track of
\* one position more.
MaxArray == 2

ArrayArgs ==
    UNION {[S : {[i \in 1..n |-> Num(35)]},
            T : {[i \in 1..n |-> Num(10 * (i - 1))]},
            P : {[i \in 1..n |-> Num(5000 * ((i + o) % (MaxP + 1)))]
                 : o \in 0..MaxP},
            lon : [1..(n + 1) -> GvelLons],
            lat : {LatTrack(n + 1, 0, 1)}]
           : n \in 1..MaxArray}

InitArray == /\ arg \in ArrayArgs
             /\ op = "none"
             /\ ret = Zero

ReturnOf(name, f, id) == /\ op = "none"
                         /\ op' = name
                         /\ ret' = f.heap[id]
                         /\ arg' = Caller(f, arg)

Array_seck ==
    \E f \in {seck_body(Frame([S |-> arg.S, T |-> arg.T, P |-> arg.P]))} :
        ReturnOf("seck", f, <<"seck", "K">>)

Array_dens ==
    \E f \in {dens_body(Frame([S |-> arg.S, T |-> arg.T, P |-> arg.P]))} :
        ReturnOf("dens", f, <<"dens", "dens">>)

Array_dist ==
    \E f \in {dist_body(Frame([lon |-> arg.lon, lat |-> arg.lat]))} :
        ReturnOf("dist", f, <<"dist", "dist">>)

NextArray == Array_seck \/ Array_dens \/ Array_dist \/ Discard

SpecArray == InitArray /\ [][NextArray]_vars

(***************************************************************************)
(* Properties of the equation-of-state routines (Spec)                     *)
(***************************************************************************)
\* C1: whenever pden has returned, its value is exactly the density of the
\* same salinity at the potential temperature ptmp(S, T, P, PR) and at the
\* reference pressure PR (0 when the caller gave none), not at P.
C1_PdenIsDensAtPR ==
    op = "pden" =>
        ret = dens(arg.S, ptmp(arg.S, arg.T, arg.P, arg.PR),
                   Default(arg.PR, Num(0)))

\* A call of pden whose reference pressure differs from the in-situ pressure
\* and whose result differs from the density at the in-situ pressure.
C1_Witness ==
    /\ op = "pden"
    /\ arg.PR # Absent /\ arg.PR # arg.P
    /\ IsFinite(ret)
    /\ ret # dens(arg.S, ptmp(arg.S, arg.T, arg.P, arg.PR), arg.P)

C3_SigmathetaAndDefaultPR ==
    /\ (op = "sigmatheta" /\ arg.PR # Absent) =>
           ret = FSub(pden(arg.S, arg.T, arg.P, arg.PR), Num(1000))
    /\ (op = "sigmatheta" /\ arg.PR = Absent) =>
           ret = sigmatheta(arg.S, arg.T, arg.P, Num(0))
    /\ (op = "pden" /\ arg.PR = Absent) =>
           ret = pden(arg.S, arg.T, arg.P, Num(0))
    /\ (op = "ptmp" /\ arg.PR = Absent) =>
           ret = ptmp(arg.S, arg.T, arg.P, Num(0))

\* A call of sigmatheta with a reference pressure that is not the surface,
\* whose result differs from that of the call without pr.
C3_Witness ==
    /\ op = "sigmatheta"
    /\ arg.PR # Absent /\ arg.PR # Zero
    /\ IsFinite(ret)
    /\ ret # sigmatheta(arg.S, arg.T, arg.P, Absent)

\* C4: whenever temp has returned, its value is exactly what ptmp returns
\* for the same salinity and temperature with the two pressures swapped.
C4_TempIsPtmpSwapped ==
    op = "temp" => ret = ptmp(arg.S, arg.T, arg.PR, arg.P)

\* A call of temp between two different pressures, where the order of the
\* pressures changes the result.
C4_Witness ==
    /\ op = "temp"
    /\ arg.P # arg.PR
    /\ IsFinite(ret)
    /\ ret # ptmp(arg.S, arg.T, arg.P, arg.PR)

\* C6: whenever svan has returned for the reference water (S = 35, T = 0),
\* at any pressure, its value is exactly zero.
C6_SvanOfReferenceIsZero ==
    (op = "svan" /\ arg.S = Num(35) /\ arg.T = Zero) => ret = Zero

\* A call of svan for the reference water below the surface.
C6_Witness ==
    /\ op = "svan"
    /\ arg.S = Num(35) /\ arg.T = Zero /\ arg.P # Zero
    /\ ret = Zero

(***************************************************************************)
(* Properties of N (SpecN)                                                 *)
(***************************************************************************)
\* C7: whenever N has returned, its value is sign(x) * sqrt(|x|) for its
\* argument x: it is no nan, it has the sign of x, it is the negative of
\* N(-x), it is 0 for x = 0 and -2 for x = -4.
C7_NIsSignedSqrt ==
    op = "N" =>
        /\ ~IsNaN(ret)
        /\ IsFinite(ret)
        /\ ret = FMul(FSign(arg.bvfr2), FSqrt(FAbs(arg.bvfr2)))
        /\ ISign(ret[1]) = ISign(arg.bvfr2[1])
        /\ ret = FNeg(N(FNeg(arg.bvfr2)))
        /\ (arg.bvfr2 = Zero => ret = Zero)
        /\ (arg.bvfr2 = Num(-4) => ret = Num(-2))

\* A call of N on a negative argument that returned a negative number.
C7_Witness ==
    /\ op = "N"
    /\ arg.bvfr2 = Num(-4)
    /\ ret = Num(-2)

(***************************************************************************)
(* Properties of dist (SpecDist)                                           *)
(***************************************************************************)
\* C8: whenever dist has returned for longitudes in [-180, 180], every
\* longitude difference it used has magnitude at most 180: a difference d
\* between consecutive stations with |d| > 180 was replaced by one of
\* magnitude 360 - |d|, any other was left as it is; so no distance
\* returned exceeds that of a longitude difference of 180 degrees at the
\* same latitude difference.
C8_DlonAtMost180 ==
    op = "dist" =>
        \A i \in 1..(Len(arg.lon) - 1) :
            The({
              /\ FLe(FAbs(u), Num(180))
              /\ FGt(FAbs(d), Num(180)) => FAbs(u) = FSub(Num(360), FAbs(d))
              /\ FLe(FAbs(d), Num(180)) => u = d
              /\ FLe(ret.dist[i],
                     FMul(FMul(DEG2NM,
                               FSqrt(FAdd(FMul(dl, dl), Num(180 * 180)))),
                          NM2KM))
              : d \in {FSub(arg.lon[i + 1], arg.lon[i])},
                u \in {dist_dlon(arg.lon)[i]},
                dl \in {FSub(arg.lat[i + 1], arg.lat[i])}})

\* dist across the date line on the equator, from 179 to -179: the
\* difference used has magnitude 2, and the distance is that of 2 degrees.
C8_Witness ==
    /\ op = "dist"
    /\ arg.lon = <<Num(179), Num(-179)>>
    /\ arg.lat = <<Num(0), Num(0)>>
    /\ FAbs(dist_dlon(arg.lon)[1]) = Num(2)
    /\ ret.dist = <<Lit(22224, -2)>>

(***************************************************************************)
(* Properties of gpan (SpecGpan)                                           *)
(***************************************************************************)
\* C9: whenever gpan has returned for m levels, the result has m rows; in
\* every column, row 0 is svan[0] * P[0] * 1e4 and row k >= 1 is row k - 1
\* plus 0.5 * (svan[k] + svan[k-1]) * (P[k] - P[k-1]) * 1e4, of that
\* column's values alone.
C9_GpanIsTrapezoidalSum ==
    op = "gpan" =>
        The({
          /\ Len(ret.at) = Len(arg.P.at)
          /\ \A k \in 1..Len(arg.P.at) :
               /\ Len(ret.at[k]) = Len(arg.P.at[k])
               /\ \A j \in 1..Len(arg.P.at[k]) :
                    ret.at[k][j] =
                      IF k = 1
                      THEN FMul(FMul(svn[1][j], arg.P.at[1][j]), Lit(1, 4))
                      ELSE FAdd(ret.at[k - 1][j],
                                FMul(FMul(FMul(Lit(5, -1),
                                               FAdd(svn[k][j], svn[k - 1][j])),
                                          FSub(arg.P.at[k][j], arg.P.at[k - 1][j])),
                                     Lit(1, 4)))
          : svn \in {svanArr(arg.S.at, arg.T.at, arg.P.at, Len(arg.P.at))}})

\* gpan of a section of three levels starting below the surface, whose
\* result has three rows, a non-zero first row and a different second row.
C9_Witness ==
    /\ op = "gpan"
    /\ Len(arg.P.at) = 3
    /\ FLt(Zero, arg.P.at[1][1])
    /\ FLt(arg.P.at[1][1], arg.P.at[2][1])
    /\ ret.at[1][1] # Zero
    /\ ret.at[2][1] # ret.at[1][1]
    /\ Len(ret.at) = 3

\* C10: whenever gpan has returned, in every column whose pressures are
\* non-decreasing from a non-negative first level and whose svan values are
\* all non-negative, the result is non-decreasing down the column.
C10_GpanMonotoneIfSvanNonNegative ==
    op = "gpan" =>
        The({
          \A j \in 1..Len(arg.P.at[1]) :
            ( /\ FLe(Zero, arg.P.at[1][j])
              /\ \A k \in 1..(Len(arg.P.at) - 1) :
                    FLe(arg.P.at[k][j], arg.P.at[k + 1][j])
              /\ \A k \in 1..Len(arg.P.at) : FLe(Zero, svn[k][j]) )
            => \A k \in 1..(Len(arg.P.at) - 1) : FLe(ret.at[k][j], ret.at[k + 1][j])
          : svn \in {svanArr(arg.S.at, arg.T.at, arg.P.at, Len(arg.P.at))}})

\* gpan of two stations at increasing pressures: at the first every svan is
\* positive and the result increases down the column; at the second svan is
\* negative and the result decreases.
C10_Witness ==
    /\ op = "gpan"
    /\ Len(arg.P.at) = 3 /\ Len(arg.P.at[1]) = 2
    /\ \A k \in 1..2 : FLt(arg.P.at[k][1], arg.P.at[k + 1][1])
    /\ \A k \in 1..3 : FLt(Zero, svan(arg.S.at[k][1], arg.T.at[k][1], arg.P.at[k][1]))
    /\ \A k \in 1..2 : FLt(ret.at[k][1], ret.at[k + 1][1])
    /\ \E k \in 1..3 : FLt(svan(arg.S.at[k][2], arg.T.at[k][2], arg.P.at[k][2]), Zero)
    /\ \E k \in 1..2 : FLt(ret.at[k + 1][2], ret.at[k][2])

\* C11: whenever gpan has returned for a one-dimensional P of m levels, it
\* has raised nothing: the result is the m cumulative values that gpan
\* returns for the same profile given as a column of m rows.
C11_Gpan1DReturnsProfile ==
    (op = "gpan" /\ ndim(arg.P) = 1) =>
        /\ ~IsRaised(ret)
        /\ The({
             /\ ret.shape = <<m>>
             /\ \A k \in 1..m : ret.at[k] = col.at[k][1]
             : m \in {arg.P.shape[1]},
               col \in {gpan(Matrix([k \in 1..arg.P.shape[1] |-> <<arg.S.at[k]>>]),
                             Matrix([k \in 1..arg.P.shape[1] |-> <<arg.T.at[k]>>]),
                             Matrix([k \in 1..arg.P.shape[1] |-> <<arg.P.at[k]>>]))}})

C14_TcondBroadcastsElementwise ==
    op = "tcond" =>
        The({
          /\ ret.shape = shape
          /\ (arg.s.shape = <<4>> /\ arg.t.shape = <<>> /\ arg.p.shape = <<>>)
                => ret.shape = <<4>>
          /\ (arg.s.shape = <<3, 4>> /\ arg.t.shape = <<4>>
                /\ Len(arg.p.shape) < 2) => ret.shape = <<3, 4>>
          /\ \A k \in 1..(IF Len(shape) = 2 THEN shape[1] ELSE 1) :
               \A j \in 1..(IF Len(shape) = 0 THEN 1 ELSE shape[Len(shape)]) :
                 item(ret, k, j) =
                   The({
                     FMul(FMul(Lit(1365, -6),
                            FSub(FAdd(FSub(FAdd(Num(1), FMul(Lit(3, -3), t)),
                                           FMul(Lit(1025, -8), FMul(t, t))),
                                      FMul(Lit(653, -4), FMul(Lit(1, -4), p))),
                                 FMul(Lit(29, -5), s))),
                          Lit(4184, -1))
                     : s \in {item(arg.s, k, j)}, t \in {item(arg.t, k, j)},
                       p \in {item(arg.p, k, j)}})
          : shape \in {broadcast(broadcast(arg.s.shape, arg.t.shape),
                                 arg.p.shape)}})

\* tcond of a grid s of 3 x 4 different salinities, a row t of 4
\* temperatures and a number p, with a result of 3 x 4 whose elements
\* differ along the rows and along the columns.
C14_Witness ==
    /\ op = "tcond"
    /\ arg.s.shape = <<3, 4>> /\ arg.t.shape = <<4>> /\ arg.p.shape = <<>>
    /\ ret.shape = <<3, 4>>
    /\ ret.at[1][1] # ret.at[2][1]
    /\ ret.at[1][1] # ret.at[1][2]

\* C15: no step of any sequence of calls changes the caller's arrays, and
\* whenever seck, dens or dist has returned, its result is the one the
\* same call gives for the arrays the caller holds now.
C15_CallsLeaveArgumentsAlone ==
    [][/\ arg' = arg
       /\ op' = "seck" =>
            ret' = [i \in 1..Len(arg'.P) |->
                      seck(arg'.S[i], arg'.T[i], arg'.P[i])]
       /\ op' = "dens" =>
            ret' = [i \in 1..Len(arg'.P) |->
                      dens(arg'.S[i], arg'.T[i], arg'.P[i])]
       /\ op' = "dist" => ret' = dist(arg'.lon, arg'.lat)]_vars

\* dens has returned for two levels at different positive pressures, and
\* the caller still holds them in decibars.
C15_Witness ==
    /\ op = "dens"
    /\ Len(arg.P) = 2
    /\ arg.P[1] = Num(5000) /\ arg.P[2] = Num(10000)
    /\ Len(ret) = 2 /\ FLt(ret[1], ret[2])

\* C16: whenever dens has returned, the result is
\* dens0(S,T) / (1 - (P/10) / seck(S,T,P)) with seck given the pressure in
\* decibars, and is dens0(S,T) at P = 0 when seck(S,T,0) is not 0; and seck
\* divides by 10 once: for pure water at 0 degC its second difference over
\* 0, 5000 and 10000 db is k0 * 2 * 500^2 = 42.54675 bars, within 0.01.
C16_DensConvertsPressureOnce ==
    /\ op = "dens" =>
         /\ ret = FDiv(dens0(arg.S, arg.T),
                       FSub(Num(1), FDiv(FDiv(arg.P, Num(10)),
                                         seck(arg.S, arg.T, arg.P))))
         /\ (arg.P = Zero /\ seck(arg.S, arg.T, Zero) # Zero)
               => ret = dens0(arg.S, arg.T)
    /\ op = "seck" =>
         FLt(FAbs(FSub(FAdd(FSub(seck(Zero, Zero, Num(10000)),
                                 FMul(Num(2), seck(Zero, Zero, Num(5000)))),
                            seck(Zero, Zero, Zero)),
                       Lit(4254675, -5))),
             Lit(1, -2))

\* dens of sea water at 10000 db, denser than at the surface.
C16_Witness ==
    /\ op = "dens"
    /\ arg.P = Num(10000)
    /\ arg.S = Num(35)
    /\ FLt(dens0(arg.S, arg.T), ret)

\* C17: whenever dens0 has returned for S = 0 the result is smow(T), and
\* smow(0) and dens0(0, 0) are 999.842594.
C17_Dens0OfFreshWaterIsSmow ==
    /\ (op = "dens0" /\ arg.S = Zero) => ret = smow(arg.T)
    /\ (op = "dens0" /\ arg.S = Zero /\ arg.T = Zero)
          => ret = Lit(999842594, -6)
    /\ (op = "smow" /\ arg.T = Zero) => ret = Lit(999842594, -6)

\* dens0 of fresh water at a temperature above 0, lighter than at 0.
C17_Witness ==
    /\ op = "dens0"
    /\ arg.S = Zero
    /\ FLt(Zero, arg.T)
    /\ FLt(ret, Lit(999842594, -6))

C19_T68convAppliedOnce ==
    /\ dens0(Zero, arg.T) = smow(arg.T)
    /\ arg.T # Zero => smow(arg.T) # smow(FMul(arg.T, T68conv))
    /\ op = "ptmp" =>
        /\ \A k \in 1..Len(ret.calls) :
             /\ ret.calls[k][2] =
                  IF k = 1 THEN arg.T ELSE FDiv(ret.ths[k - 1], T68conv)
             /\ ret.del_P = Zero =>
                  FLe(FAbs(FSub(ret.calls[k][2], arg.T)),
                      FMul(Lit(1, -6), FAbs(arg.T)))
        /\ Len(ret.ths) >= 1 =>
             ret.ths[1] =
               FAdd(FMul(arg.T, T68conv),
                    FMul(Lit(5, -1),
                         FMul(ret.del_P, adtg(arg.S, arg.T, arg.P))))
        /\ ret.pc = 5 =>
             /\ ret.PT = ptmp(arg.S, arg.T, arg.P, arg.PR)
             /\ ret.del_P = Zero =>
                  FLe(FAbs(FSub(ret.PT, arg.T)), FMul(Lit(1, -6), FAbs(arg.T)))

\* ptmp has finished for T = 20 and PR # P, after four calls of adtg, with
\* a value that differs from T.
C19_Witness ==
    /\ op = "ptmp"
    /\ ret.pc = 5
    /\ arg.T = Num(20)
    /\ ret.del_P # Zero
    /\ ret.PT # arg.T
    /\ Len(ret.calls) = 4
    /\ ret.calls[4][2] # arg.T

\* C20: whenever ptmp is running, it has called adtg once for each stage
\* done, at most four times, with the pressures P, P + del_P / 2,
\* P + del_P / 2 and P + del_P = PR in this order, always with S, each call
\* after the first with the temperature left by the stage before; and PT is
\* assigned exactly when the fourth call has been made.
C20_FourAdtgCallsInOrder ==
    op = "ptmp" =>
        /\ Len(ret.calls) = ret.pc - 1
        /\ Len(ret.calls) <= 4
        /\ \A k \in 1..Len(ret.calls) :
             /\ ret.calls[k][1] = arg.S
             /\ ret.calls[k][3] =
                  CASE k = 1 -> arg.P
                    [] k \in {2, 3} ->
                         FAdd(arg.P, FMul(Lit(5, -1),
                                          FSub(Default(arg.PR, Num(0)), arg.P)))
                    [] k = 4 -> Default(arg.PR, Num(0))
             /\ k > 1 => ret.calls[k][2] = FDiv(ret.ths[k - 1], T68conv)
        /\ (ret.PT # Absent) <=> (Len(ret.calls) = 4)
        /\ ret.PT # Absent => ret.PT = ptmp(arg.S, arg.T, arg.P, arg.PR)

\* ptmp has made its four calls from 10000 db to the surface, under the
\* gradient that depends on temperature and pressure, with different
\* temperatures in the second and the third.
C20_Witness ==
    /\ op = "ptmp"
    /\ arg.P = Num(10000) /\ arg.PR = Zero
    /\ arg.adtg = "affine"
    /\ Len(ret.calls) = 4
    /\ ret.calls[2][3] = Num(5000) /\ ret.calls[3][3] = Num(5000)
    /\ ret.calls[2][2] # ret.calls[3][2]
    /\ ret.PT # Absent

C22_ConstantGradientIsExact ==
    (arg.adtg = "const" /\ op = "ptmp") =>
        /\ ret = FDiv(FAdd(FMul(arg.T, T68conv),
                           FMul(adtg(arg.S, arg.T, arg.P),
                                FSub(Default(arg.PR, Num(0)), arg.P))),
                      T68conv)
        /\ temp(arg.S, ret, arg.P, Default(arg.PR, Num(0))) = arg.T

\* C22, amended: whenever adtg is a constant c, ptmp returns
\* (T*T68conv + c*(PR - P)) / T68conv within 1e-6 degree, and temp applied to
\* the value ptmp returns gives back T within 1e-6 degree.
C22_ConstantGradientWithinRounding ==
    (arg.adtg = "const" /\ op = "ptmp") =>
        /\ FLe(FAbs(FSub(ret,
                         FDiv(FAdd(FMul(arg.T, T68conv),
                                   FMul(adtg(arg.S, arg.T, arg.P),
                                        FSub(Default(arg.PR, Num(0)), arg.P))),
                              T68conv))),
               Lit(1, -6))
        /\ FLe(FAbs(FSub(temp(arg.S, ret, arg.P, Default(arg.PR, Num(0))),
                         arg.T)),
               Lit(1, -6))

\* A call of ptmp with the constant gradient over a pressure step that is not
\* 0, whose value differs from T by about c*(PR - P) but is not exactly the
\* closed form.
C22_Witness ==
    /\ op = "ptmp"
    /\ arg.adtg = "const"
    /\ arg.PR # Absent /\ arg.PR # arg.P
    /\ FGt(FAbs(FSub(ret, arg.T)), Lit(4, -1))
    /\ ret # FDiv(FAdd(FMul(arg.T, T68conv),
                       FMul(adtg(arg.S, arg.T, arg.P), FSub(arg.PR, arg.P))),
                  T68conv)

(***************************************************************************)
(* Properties of dist's correction across the date line (SpecDist)         *)
(***************************************************************************)
\* C23 as stated: whenever dist has returned, a difference d of consecutive
\* longitudes with |d| > 180 was replaced by sign(d) * (360 - |d|).
C23_CorrectionKeepsSign ==
    op = "dist" =>
        \A i \in 1..(Len(arg.lon) - 1) :
            The({
              FGt(FAbs(d), Num(180)) =>
                  dist_dlon(arg.lon)[i] =
                      FMul(FSign(d), FSub(Num(360), FAbs(d)))
              : d \in {FSub(arg.lon[i + 1], arg.lon[i])}})

\* C23, amended: whenever dist has returned, a difference d of consecutive
\* longitudes with |d| > 180 was replaced by -sign(d) * (360 - |d|), the
\* short way round with the sign reversed; the bearing returned shows it: a
\* step with d < -180 (eastwards over the date line) has a bearing within 90
\* degrees of east, a step with d > 180 a bearing more than 90 degrees from
\* east, unless the corrected difference is 0.
C23_CorrectionReversesSign ==
    op = "dist" =>
        \A i \in 1..(Len(arg.lon) - 1) :
            The({
              FGt(FAbs(d), Num(180)) =>
                  /\ u = FMul(FNeg(FSign(d)), FSub(Num(360), FAbs(d)))
                  /\ (FLt(d, Num(-180)) /\ u # Zero) =>
                         /\ FGt(u, Zero)
                         /\ FLt(FAbs(ret.phaseangle[i]), Num(90))
                  /\ (FGt(d, Num(180)) /\ u # Zero) =>
                         /\ FLt(u, Zero)
                         /\ FGt(FAbs(ret.phaseangle[i]), Num(90))
              : d \in {FSub(arg.lon[i + 1], arg.lon[i])},
                u \in {dist_dlon(arg.lon)[i]}})

\* dist along the equator from 179 to -179 and back: the raw differences are
\* -358 and 358, the corrected ones 2 and -2, the bearings 0 (east) and 180.
C23_Witness ==
    /\ op = "dist"
    /\ arg.lon = <<Num(179), Num(-179), Num(179)>>
    /\ arg.lat = <<Num(0), Num(0), Num(0)>>
    /\ dist_dlon(arg.lon) = <<Num(2), Num(-2)>>
    /\ ret.phaseangle[1] = Zero
    /\ FAbs(ret.phaseangle[2]) = Num(180)

(***************************************************************************)
(* Properties of shear (SpecShear)                                         *)
(***************************************************************************)
\* C24: whenever shear has returned for M pressure levels and a section u of
\* shape (M, N), both results have M - 1 rows of N columns; row i of shr is
\* (speed[i+1] - speed[i]) / (p[i+1] - p[i]) with speed = sqrt(u^2 + v^2) and
\* v = 0 when it was left out; row i of p_ave is (p[i] + p[i+1]) / 2; and a
\* pressure vector gives what the grid with p[i] all along row i gives.
C24_ShearIsSpeedDifferenceOverPressure ==
    op = "shear" =>
        The({
          /\ ret.shr.shape = <<levels - 1, cols>>
          /\ ret.p_ave.shape = <<levels - 1, cols>>
          /\ Len(ret.shr.at) = levels - 1 /\ Len(ret.p_ave.at) = levels - 1
          /\ \A i \in 1..(levels - 1) : \A j \in 1..cols :
                The({
                  /\ ret.shr.at[i][j] =
                       FDiv(FSub(FSqrt(FAdd(FMul(u1, u1), FMul(v1, v1))),
                                 FSqrt(FAdd(FMul(u0, u0), FMul(v0, v0)))),
                            FSub(p1, p0))
                  /\ ret.p_ave.at[i][j] = FDiv(FAdd(p0, p1), Num(2))
                  : u0 \in {arg.u.at[i][j]}, u1 \in {arg.u.at[i + 1][j]},
                    v0 \in {IF arg.given = 2 THEN Zero ELSE arg.v.at[i][j]},
                    v1 \in {IF arg.given = 2 THEN Zero ELSE arg.v.at[i + 1][j]},
                    p0 \in {IF ndim(arg.p) = 1 THEN arg.p.at[i] ELSE arg.p.at[i][j]},
                    p1 \in {IF ndim(arg.p) = 1 THEN arg.p.at[i + 1]
                             ELSE arg.p.at[i + 1][j]}})
          /\ ndim(arg.p) = 1 =>
                ret = shear(Matrix([i \in 1..levels |-> [j \in 1..cols |-> arg.p.at[i]]]),
                            arg.u, IF arg.given = 2 THEN Scalar(Zero) ELSE arg.v)
          : levels \in {arg.u.shape[1]}, cols \in {arg.u.shape[2]}})

\* shear of the pressure vector 0, 250, 500 with a section of 2 columns whose
\* speeds are 0.5, 0.15, 0 in the first column and twice that in the second,
\* v left out: the first column of shr is -1.4e-3, -6e-4, the second twice
\* that, and p_ave is 125, 375 in both columns.
C24_Witness ==
    /\ op = "shear"
    /\ arg.given = 2
    /\ arg.p = Vector(<<Num(0), Num(250), Num(500)>>)
    /\ arg.u.shape = <<3, 2>>
    /\ ret.shr.at = <<<<Lit(-14, -4), Lit(-28, -4)>>, <<Lit(-6, -4), Lit(-12, -4)>>>>
    /\ ret.p_ave.at = <<<<Num(125), Num(125)>>, <<Num(375), Num(375)>>>>

(***************************************************************************)
(* Properties of the conversion to bars (SpecBars)                         *)
(***************************************************************************)
\* C25: whenever svel, cp, seck or dens has converted its pressure, the value
\* in bars is the tenth of the pressure in decibars, the same in all four,
\* for integer pressures too (25 gives 2.5).
C25_BarsAreTenthOfDecibars ==
    op \in {"svel", "cp", "seck", "dens"} =>
        (IF ret.dtype = "int" THEN Num(ret.n) ELSE ret.x) =
            FDiv(IF arg.P.dtype = "int" THEN Num(arg.P.n) ELSE arg.P.x, Num(10))
====
